---- MODULE Spec2Model ----
(***************************************************************************)
(* Directed call pickup (apps/app_directed_pickup.c).                       *)
(*                                                                         *)
(* The registry of channels is a sequence chans[1..NChan]; its order is    *)
(* the enumeration order of ast_channel_walk_locked.  A pickup invocation  *)
(* p runs pickup_exec on its own channel chans[p].  C strings are          *)
(* sequences of character codes (the terminating NUL is implied); the      *)
(* null pointer is NULL.                                                   *)
(***************************************************************************)
EXTENDS Integers, Sequences, FiniteSets, TLC

VARIABLES chans,   \* the channel registry: index -> channel fields
          lock,    \* lock[c]: the invocation holding channel c's lock, 0 if free
          st,      \* st[p]: locals, position and history of invocation p
          engine   \* number of state changes the engine has made so far

vars == <<chans, lock, st, engine>>

-----------------------------------------------------------------------------
(* Bounds *)

NChan == 3        \* channels in the registry
MaxEngine == 1    \* state changes made by the rest of the engine

-----------------------------------------------------------------------------
(* C strings *)

NULL == <<0>>
EmptyStr == << >>

S_100 == <<49, 48, 48>>                              \* "100"
S_999 == <<57, 57, 57>>                              \* "999"
S_s == <<115>>                                       \* "s"
S_s1 == <<115, 49>>                                  \* "s1"
S_S1 == <<83, 49>>                                   \* "S1"
S_default == <<100, 101, 102, 97, 117, 108, 116>>    \* "default"
S_DEFAULT == <<68, 69, 70, 65, 85, 76, 84>>          \* "DEFAULT"
S_other == <<111, 116, 104, 101, 114>>               \* "other"
S_PickupMark == <<80, 105, 99, 107, 117, 112, 77, 97, 114, 107>>  \* "PickupMark"

\* #define PICKUPMARK "PICKUPMARK"
PICKUPMARK == <<80, 73, 67, 75, 85, 80, 77, 65, 82, 75>>

Amp(a, b) == a \o <<38>> \o b     \* a "&" b
At(a, b) == a \o <<64>> \o b      \* a "@" b

\* tolower() of the C locale
tolower(c) == IF c >= 65 /\ c <= 90 THEN c + 32 ELSE c

\* the character at position i of a C string, NUL past its end
CharAt(s, i) == IF i <= Len(s) THEN s[i] ELSE 0

RECURSIVE strcasecmp_from(_, _, _)
strcasecmp_from(a, b, i) ==
    LET ca == tolower(CharAt(a, i))
        cb == tolower(CharAt(b, i))
    IN  IF ca # cb THEN ca - cb
        ELSE IF ca = 0 THEN 0
        ELSE strcasecmp_from(a, b, i + 1)

\* strcasecmp(a, b): 0 iff the strings are equal ignoring case
strcasecmp(a, b) == strcasecmp_from(a, b, 1)

\* ast_strlen_zero(s): (!s || (*s == '\0'))
ast_strlen_zero(s) == s = NULL \/ Len(s) = 0

\* index of the first occurrence of character ch in s, 0 if there is none
RECURSIVE IndexFrom(_, _, _)
IndexFrom(s, ch, i) ==
    IF i > Len(s) THEN 0
    ELSE IF s[i] = ch THEN i
    ELSE IndexFrom(s, ch, i + 1)

\* strsep(&tmp, "&"): the token returned ...
strsep_token(s) ==
    LET i == IndexFrom(s, 38, 1)
    IN  IF i = 0 THEN s ELSE SubSeq(s, 1, i - 1)

\* ... and the value left in tmp (NULL when no delimiter was found)
strsep_rest(s) ==
    LET i == IndexFrom(s, 38, 1)
    IN  IF i = 0 THEN NULL ELSE SubSeq(s, i + 1, Len(s))

\* context = strchr(exten, '@'); *context++ = '\0': what is left in exten ...
split_exten(tok) ==
    LET i == IndexFrom(tok, 64, 1)
    IN  IF i = 0 THEN tok ELSE SubSeq(tok, 1, i - 1)

\* ... and what context points to (NULL when there is no '@')
split_context(tok) ==
    LET i == IndexFrom(tok, 64, 1)
    IN  IF i = 0 THEN NULL ELSE SubSeq(tok, i + 1, Len(tok))

-----------------------------------------------------------------------------
(* Channels *)

\* the fields of struct ast_channel the application reads or that the
\* collaborators it calls write
Chan(ex, mex, dctx, ctx, px, state, mark) ==
    [exten |-> ex, macroexten |-> mex, dialcontext |-> dctx, context |-> ctx,
     pbx |-> px, state |-> state, mark |-> mark,
     frames |-> << >>, masq |-> 0]

\* channels that are being dialed (or were): candidates of a pickup
TargetProfiles ==
    { Chan(S_100, EmptyStr, S_default, EmptyStr, FALSE, "RINGING", NULL),
      Chan(S_s, S_100, S_DEFAULT, EmptyStr, FALSE, "RING", S_s1),
      Chan(S_100, EmptyStr, S_default, EmptyStr, TRUE, "RINGING", S_s1),
      Chan(S_100, EmptyStr, S_default, EmptyStr, FALSE, "DOWN", S_s1),
      Chan(S_s1, EmptyStr, PICKUPMARK, EmptyStr, FALSE, "RINGING", NULL),
      Chan(S_100, EmptyStr, S_other, EmptyStr, FALSE, "RINGING", NULL) }

\* channels that run the Pickup application
RequesterProfiles ==
    { Chan(S_100, EmptyStr, S_default, S_default, TRUE, "RING", S_s1),
      Chan(S_100, EmptyStr, S_other, PICKUPMARK, FALSE, "UP", NULL) }

\* the argument strings given to Pickup()
Requests ==
    { EmptyStr,
      S_100,
      S_999,
      At(S_S1, S_PickupMark),
      Amp(At(S_S1, S_PickupMark), S_100),
      Amp(At(S_100, S_DEFAULT), S_s1),
      Amp(EmptyStr, S_100),
      Amp(S_100, EmptyStr),
      Amp(S_100, Amp(EmptyStr, At(S_s1, PICKUPMARK))),
      At(S_100, EmptyStr),
      Amp(S_999, At(S_100, S_other)) }

\* what ast_pickup_call(), ast_answer(), ast_queue_control() and
\* ast_channel_masquerade() can return
CallResults == {0, -1}

Channels == 1..NChan

\* one entry of an invocation's history of calls into the engine
Ev(op, arg, r) == [op |-> op, arg |-> arg, r |-> r]

-----------------------------------------------------------------------------
(* Pure parts of the application *)

\* can_pickup with the state test left out
can_pickup_ignore_state(c) == IF ~c.pbx THEN 1 ELSE 0

\* can_pickup with the pbx test left out
can_pickup_ignore_pbx(c) ==
    IF c.state = "RINGING" \/ c.state = "RING" THEN 1 ELSE 0

\* can_pickup(chan)
can_pickup(c) ==
    IF ~c.pbx /\ (c.state = "RINGING" \/ c.state = "RING") THEN 1 ELSE 0

\* the match test with the dial context left out
exten_match_no_context(c, exten, context) ==
    strcasecmp(c.macroexten, exten) = 0 \/ strcasecmp(c.exten, exten) = 0

\* the match test with both names required
exten_match_both(c, exten, context) ==
    /\ (strcasecmp(c.macroexten, exten) = 0 /\ strcasecmp(c.exten, exten) = 0)
    /\ strcasecmp(c.dialcontext, context) = 0

\* the match test of pickup_by_exten
exten_match(c, exten, context) ==
    /\ (strcasecmp(c.macroexten, exten) = 0 \/ strcasecmp(c.exten, exten) = 0)
    /\ strcasecmp(c.dialcontext, context) = 0

\* pbx_builtin_getvar_helper(target, PICKUPMARK)
getvar_PICKUPMARK(c) == c.mark

\* the match test of pickup_by_mark
mark_match(c, mark) ==
    /\ getvar_PICKUPMARK(c) # NULL
    /\ strcasecmp(getvar_PICKUPMARK(c), mark) = 0

\* the sentinel compared with its exact spelling only
is_mark_spec_exact(context) ==
    ~ast_strlen_zero(context) /\ context = PICKUPMARK

\* pickup_exec: does the spec select mark matching?
is_mark_spec(context) ==
    ~ast_strlen_zero(context) /\ strcasecmp(context, PICKUPMARK) = 0

\* pickup_exec: the context handed to pickup_by_exten
exten_context(context, chancontext) ==
    IF ~ast_strlen_zero(context) THEN context ELSE chancontext

\* pickup_do with the result of ast_answer not tested
pickup_do_next_ignore_answer(step, r) ==
    CASE step = "answer" -> "queue"
      [] step = "queue" /\ r = 0 -> "masq"
      [] OTHER -> "unlock"

\* pickup_do: where control goes after a step returned r
pickup_do_next(step, r) ==
    IF r # 0 THEN "unlock"
    ELSE CASE step = "answer" -> "queue"
           [] step = "queue" -> "masq"
           [] OTHER -> "unlock"

\* pickup_do handing back a different value for each failing step
pickup_do_res_by_step(step, r) ==
    IF r = 0 THEN r
    ELSE CASE step = "answer" -> -1
           [] step = "queue" -> -2
           [] OTHER -> -3

\* pickup_do reporting success when the masquerade failed
pickup_do_res_masq_unchecked(step, r) ==
    IF step = "masq" THEN 0 ELSE IF r # 0 THEN -1 ELSE r

\* pickup_do: its return value, decided by the step that ends it
pickup_do_res(step, r) == IF r # 0 THEN -1 ELSE r

\* the test of the scan's result inverted
exec_break_on_failure(sres) == sres # 0

\* pickup_exec without the break
exec_break_never(sres) == FALSE

\* pickup_exec: if (!pickup_by_...(...)) break;
exec_break(sres) == sres = 0

\* one entry of an invocation's history of merges: the target, the step
\* that failed ("none" when all succeeded) and what pickup_do returned;
\* added when the step that just returned r ends pickup_do
Ended(ms, target, step, r) ==
    IF pickup_do_next(step, r) = "unlock"
    THEN Append(ms, [target |-> target,
                     failed |-> IF r # 0 THEN step ELSE "none",
                     res |-> pickup_do_res(step, r)])
    ELSE ms

\* pickup_exec returning the result of the last scan
pickup_exec_return_scan(res, sres) == sres

\* pickup_exec: return res;
pickup_exec_return(res, sres) == res

\* the empty-argument path returning success whatever the fallback said
fallback_return_zero(r) == 0

\* pickup_exec: the empty-argument path, res = ast_pickup_call(chan); return res;
fallback_return(r) == r

\* ast_channel_walk_locked(prev): the channel after prev, 0 when there is none
walk_next(prev) == IF prev < NChan THEN prev + 1 ELSE 0

\* the unlock of a channel that was not selected left out
skip_unlock_missing(lk, c) == lk

\* ast_channel_unlock(target) of a channel that was not selected
skip_unlock(lk, c) == [lk EXCEPT ![c] = 0]

\* the lock of the selected channel given up before pickup_do is called
select_lock_release(lk, c) == [lk EXCEPT ![c] = 0]

\* the selected channel stays locked while pickup_do runs
select_lock(lk, c) == lk

\* the loop left only after a merge that succeeded
merge_break_on_success(sres) == sres = 0

\* pickup_by_exten / pickup_by_mark: the break after pickup_do
merge_break(sres) == TRUE

\* a failing step undoing the answer of the requester
pickup_do_fail_rollback(cs, chan) == [cs EXCEPT ![chan].state = "RING", ![chan].frames = << >>]

\* pickup_do: a failing step logs and returns, the channels stay as they are
pickup_do_fail(cs, chan) == cs

\* the unlock after pickup_do left out
done_unlock_missing(lk, c) == lk

\* ast_channel_unlock(target) after pickup_do returned
done_unlock(lk, c) == [lk EXCEPT ![c] = 0]

\* effects of the collaborators on the channels
ast_answer_effect(c) == [c EXCEPT !.state = "UP"]
ast_queue_control_effect(c) == [c EXCEPT !.frames = Append(@, "ANSWER")]
\* the target is absorbed: it is no longer a ringing call of its own
ast_channel_masquerade_effect(c, clone) == [c EXCEPT !.masq = clone, !.state = "UP"]

\* the engine moves a call forward: it starts ringing, or it is answered
engine_next_state(s) == IF s = "DOWN" THEN "RINGING" ELSE "UP"

-----------------------------------------------------------------------------
(* State *)

InitProc ==
    [pc |-> "idle", data |-> EmptyStr, tmp |-> NULL, exten |-> NULL,
     context |-> NULL, mode |-> "none", sctx |-> NULL, target |-> 0,
     sres |-> 0, res |-> 0, ret |-> 0, picked |-> 0, dirty |-> FALSE,
     log |-> << >>, scans |-> << >>, trace |-> << >>, merges |-> << >>]

\* the invocations P, their channels drawn from RP, the other channels from
\* TP, each invocation to be given one of the argument strings RQ
InitOf(P, RP, TP, RQ) ==
    /\ chans \in [Channels -> TP \cup RP]
    /\ \A c \in Channels : (c \in P) <=> (chans[c] \in RP)
    /\ lock = [c \in Channels |-> 0]
    /\ st = [p \in P |-> [reqs |-> RQ] @@ InitProc]
    /\ engine = 0

InitWith(P) == InitOf(P, RequesterProfiles, TargetProfiles, Requests)

Init == InitWith({1})

Procs == DOMAIN st

\* every other invocation's scan has seen the registry change under it
Touched(s, p) ==
    [q \in DOMAIN s |-> IF q # p THEN [s[q] EXCEPT !.dirty = TRUE] ELSE s[q]]

-----------------------------------------------------------------------------
(* pickup_exec *)

pickup_exec(p) ==
    /\ st[p].pc = "idle"
    /\ \E d \in st[p].reqs, r \in CallResults :
         st' = [st EXCEPT ![p] =
                  IF ast_strlen_zero(d)
                  THEN [@ EXCEPT !.data = d, !.tmp = d,
                                 !.ret = fallback_return(r), !.pc = "done",
                                 !.trace = Append(@, Ev("ast_pickup_call", p, r))]
                  ELSE [@ EXCEPT !.data = d, !.tmp = d, !.res = 0, !.pc = "loop"]]
    /\ UNCHANGED <<chans, lock, engine>>

\* the head of the while loop and the parse of one spec
pickup_exec_loop(p) ==
    /\ st[p].pc = "loop"
    /\ LET s == st[p]
           tok == strsep_token(s.tmp)
           ex == split_exten(tok)
           ctx == split_context(tok)
       IN  st' = [st EXCEPT ![p] =
                    IF ast_strlen_zero(s.tmp)
                    THEN [@ EXCEPT !.ret = pickup_exec_return(s.res, s.sres),
                                   !.pc = "done"]
                    ELSE [@ EXCEPT !.tmp = strsep_rest(s.tmp),
                                   !.exten = ex, !.context = ctx,
                                   !.mode = IF is_mark_spec(ctx) THEN "mark" ELSE "exten",
                                   !.sctx = IF is_mark_spec(ctx) THEN NULL
                                            ELSE exten_context(ctx, chans[p].context),
                                   !.target = 0, !.sres = -1, !.picked = 0,
                                   !.dirty = FALSE,
                                   !.scans = Append(@, [mode |-> IF is_mark_spec(ctx)
                                                                  THEN "mark" ELSE "exten",
                                                        exten |-> ex]),
                                   !.pc = "walk"]]
    /\ UNCHANGED <<chans, lock, engine>>

\* pickup_by_exten / pickup_by_mark returned to pickup_exec
pickup_exec_ret(p) ==
    /\ st[p].pc = "ret"
    /\ LET s == st[p]
       IN  st' = [st EXCEPT ![p] =
                    IF exec_break(s.sres)
                    THEN [@ EXCEPT !.ret = pickup_exec_return(s.res, s.sres),
                                   !.pc = "done"]
                    ELSE [@ EXCEPT !.log = Append(@, <<"NOTICE", s.exten>>),
                                   !.pc = "loop"]]
    /\ UNCHANGED <<chans, lock, engine>>

-----------------------------------------------------------------------------
(* pickup_by_exten, pickup_by_mark *)

\* target = ast_channel_walk_locked(target)
walk(p) ==
    /\ st[p].pc = "walk"
    /\ LET n == walk_next(st[p].target)
       IN  IF n = 0
           THEN /\ st' = [st EXCEPT ![p].pc = "ret"]
                /\ UNCHANGED lock
           ELSE /\ lock[n] = 0
                /\ lock' = [lock EXCEPT ![n] = p]
                /\ st' = [st EXCEPT ![p].target = n, ![p].pc = "test",
                                    ![p].trace = Append(@, Ev("lock", n, 0))]
    /\ UNCHANGED <<chans, engine>>

\* the if of the loop body, on the locked channel
test(p) ==
    /\ st[p].pc = "test"
    /\ LET s == st[p]
           c == chans[s.target]
           match == IF s.mode = "mark" THEN mark_match(c, s.exten)
                    ELSE exten_match(c, s.exten, s.sctx)
       IN  IF match /\ can_pickup(c) # 0
           THEN /\ st' = [st EXCEPT ![p].picked = s.target, ![p].pc = "answer"]
                /\ lock' = select_lock(lock, s.target)
           ELSE /\ lock' = skip_unlock(lock, s.target)
                /\ st' = [st EXCEPT ![p].pc = "walk",
                                    ![p].trace = Append(@, Ev("unlock", s.target, 0))]
    /\ UNCHANGED <<chans, engine>>

\* ast_channel_unlock(target); break; return res;
unlock(p) ==
    /\ st[p].pc = "unlock"
    /\ lock' = done_unlock(lock, st[p].target)
    /\ st' = [st EXCEPT ![p].pc = IF merge_break(st[p].sres) THEN "ret" ELSE "walk",
                        ![p].trace = Append(@, Ev("unlock", st[p].target, 0))]
    /\ UNCHANGED <<chans, engine>>

-----------------------------------------------------------------------------
(* pickup_do(chan, target) *)

\* ast_answer(chan)
answer(p) ==
    /\ st[p].pc = "answer"
    /\ \E r \in CallResults :
         /\ chans' = IF r = 0 THEN [chans EXCEPT ![p] = ast_answer_effect(@)]
                     ELSE pickup_do_fail(chans, p)
         /\ st' = [Touched(st, p) EXCEPT
                     ![p].trace = Append(@, Ev("ast_answer", p, r)),
                     ![p].log = IF r # 0 THEN Append(@, <<"WARNING", <<1>>>>) ELSE @,
                     ![p].sres = pickup_do_res("answer", r),
                     ![p].merges = Ended(@, st[p].target, "answer", r),
                     ![p].pc = pickup_do_next("answer", r)]
    /\ UNCHANGED <<lock, engine>>

\* ast_queue_control(chan, AST_CONTROL_ANSWER)
queue(p) ==
    /\ st[p].pc = "queue"
    /\ \E r \in CallResults :
         /\ chans' = IF r = 0 THEN [chans EXCEPT ![p] = ast_queue_control_effect(@)]
                     ELSE pickup_do_fail(chans, p)
         /\ st' = [Touched(st, p) EXCEPT
                     ![p].trace = Append(@, Ev("ast_queue_control", p, r)),
                     ![p].log = IF r # 0 THEN Append(@, <<"WARNING", <<2>>>>) ELSE @,
                     ![p].sres = pickup_do_res("queue", r),
                     ![p].merges = Ended(@, st[p].target, "queue", r),
                     ![p].pc = pickup_do_next("queue", r)]
    /\ UNCHANGED <<lock, engine>>

\* ast_channel_masquerade(target, chan)
masq(p) ==
    /\ st[p].pc = "masq"
    /\ \E r \in CallResults :
         /\ chans' = IF r = 0
                     THEN [chans EXCEPT ![st[p].target] =
                                          ast_channel_masquerade_effect(@, p)]
                     ELSE pickup_do_fail(chans, p)
         /\ st' = [Touched(st, p) EXCEPT
                     ![p].trace = Append(@, Ev("ast_channel_masquerade", st[p].target, r)),
                     ![p].log = IF r # 0 THEN Append(@, <<"WARNING", <<3>>>>) ELSE @,
                     ![p].sres = pickup_do_res("masq", r),
                     ![p].merges = Ended(@, st[p].target, "masq", r),
                     ![p].pc = pickup_do_next("masq", r)]
    /\ UNCHANGED <<lock, engine>>

-----------------------------------------------------------------------------
(* The rest of the engine *)

\* the engine changes the state of a call that no pickup has locked
Engine(c) ==
    /\ engine < MaxEngine
    /\ c \notin Procs
    /\ lock[c] = 0
    /\ chans[c].state # "UP"
    /\ chans' = [chans EXCEPT ![c].state = engine_next_state(@)]
    /\ st' = Touched(st, 0)
    /\ engine' = engine + 1
    /\ UNCHANGED lock

-----------------------------------------------------------------------------

Next ==
    \/ \E p \in Procs : pickup_exec(p)
    \/ \E p \in Procs : pickup_exec_loop(p)
    \/ \E p \in Procs : pickup_exec_ret(p)
    \/ \E p \in Procs : walk(p)
    \/ \E p \in Procs : test(p)
    \/ \E p \in Procs : unlock(p)
    \/ \E p \in Procs : answer(p)
    \/ \E p \in Procs : queue(p)
    \/ \E p \in Procs : masq(p)
    \/ \E c \in Channels : Engine(c)

Spec == Init /\ [][Next]_vars

-----------------------------------------------------------------------------
(* Two invocations at once *)

\* both requesters run the application from the dialplan of "default"
RaceRequesters ==
    { Chan(S_100, EmptyStr, S_default, S_default, TRUE, "RING", S_s1) }

\* the calls they race for
RaceTargets ==
    { Chan(S_100, EmptyStr, S_default, EmptyStr, FALSE, "RINGING", NULL),
      Chan(S_s, S_100, S_DEFAULT, EmptyStr, FALSE, "RING", S_s1) }

RaceRequests ==
    { S_100,
      Amp(At(S_S1, S_PickupMark), S_100) }

InitRace == InitOf({1, 2}, RaceRequesters, RaceTargets, RaceRequests)

SpecRace == InitRace /\ [][Next]_vars

\* the steps of invocation p
Step(p) ==
    \/ pickup_exec(p) \/ pickup_exec_loop(p) \/ pickup_exec_ret(p)
    \/ walk(p) \/ test(p) \/ unlock(p)
    \/ answer(p) \/ queue(p) \/ masq(p)

\* the fair runs: both invocations ask for an extension, one that is ringing
\* and one that no call rings for
FairRequests == { S_100, S_999 }

InitFair == InitOf({1, 2}, RaceRequesters, RaceTargets, FairRequests)

\* each invocation runs on a thread of its own, which the scheduler does
\* not starve
SpecFair == InitFair /\ [][Next]_vars /\ WF_vars(Step(1)) /\ WF_vars(Step(2))

-----------------------------------------------------------------------------
(* Vocabulary of the properties, stated on the request string itself *)

\* the '&'-delimited segments of a request, left to right
RECURSIVE SegmentsOf(_)
SegmentsOf(s) ==
    IF \E i \in 1..Len(s) : s[i] = 38
    THEN LET i == CHOOSE k \in 1..Len(s) :
                         s[k] = 38 /\ \A j \in 1..(k - 1) : s[j] # 38
         IN  <<SubSeq(s, 1, i - 1)>> \o SegmentsOf(SubSeq(s, i + 1, Len(s)))
    ELSE <<s>>

\* the part of a segment before its first '@'
SegIdent(seg) ==
    IF \E i \in 1..Len(seg) : seg[i] = 64
    THEN SubSeq(seg, 1, (CHOOSE k \in 1..Len(seg) :
                            seg[k] = 64 /\ \A j \in 1..(k - 1) : seg[j] # 64) - 1)
    ELSE seg

\* the part of a segment after its first '@', empty when there is none
SegCtx(seg) == SubSeq(seg, Len(SegIdent(seg)) + 2, Len(seg))

Fold(c) == IF c \in 97..122 THEN c - 32 ELSE c

\* equality of two strings ignoring letter case
SameNoCase(a, b) ==
    /\ Len(a) = Len(b)
    /\ \A i \in 1..Len(a) : Fold(a[i]) = Fold(b[i])

\* a segment whose context is the reserved token
IsMarkSeg(seg) == SameNoCase(SegCtx(seg), PICKUPMARK)

\* the segment invocation p is evaluating
CurSeg(p) == SegmentsOf(st[p].data)[Len(st[p].scans)]

\* the context an Extension segment is matched in
SegEffCtx(p, seg) == IF SegCtx(seg) # << >> THEN SegCtx(seg) ELSE chans[p].context

Ringing(c) == c.state \in {"RINGING", "RING"}
Eligible(c) == ~c.pbx /\ Ringing(c)

\* channel c satisfies the match test of the segment p is evaluating
SegMatches(p, c) ==
    LET seg == CurSeg(p)
    IN  IF IsMarkSeg(seg)
        THEN c.mark # NULL /\ SameNoCase(c.mark, SegIdent(seg))
        ELSE /\ SameNoCase(SegIdent(seg), c.exten) \/ SameNoCase(SegIdent(seg), c.macroexten)
             /\ SameNoCase(SegEffCtx(p, seg), c.dialcontext)

\* invocation p is inside pickup_do
InMerge(p) == st[p].pc \in {"answer", "queue", "masq"}

\* invocation p is inside pickup_by_exten or pickup_by_mark
InScan(p) == st[p].pc \in {"walk", "test", "answer", "queue", "masq", "unlock"}

\* some transplant of invocation p has succeeded
Merged(p) ==
    \E i \in 1..Len(st[p].trace) :
        st[p].trace[i].op = "ast_channel_masquerade" /\ st[p].trace[i].r = 0

\* some step of a merge of invocation p has failed
MergeFailed(p) ==
    \E i \in 1..Len(st[p].trace) :
        /\ st[p].trace[i].op \in {"ast_answer", "ast_queue_control", "ast_channel_masquerade"}
        /\ st[p].trace[i].r # 0

-----------------------------------------------------------------------------
(* Properties *)

\* C1: a merge starts on a call only out of the test made under that call's
\* lock, and only when, at that instant, the call had no pbx and its state
\* was RINGING or RING.
C1_MergeOnlyOnEligible ==
    [][\A p \in Procs :
         (st'[p].pc = "answer" /\ st[p].pc # "answer") =>
             /\ st[p].pc = "test"
             /\ lock[st[p].target] = p
             /\ ~chans[st[p].target].pbx
             /\ chans[st[p].target].state \in {"RINGING", "RING"}
             /\ st'[p].target = st[p].target]_vars

\* a merge is starting, and the scan passed over a matching call that is
\* attached and over a matching call that is not ringing
C1_Witness ==
    \E p \in Procs :
        /\ st[p].pc = "answer"
        /\ \E a, b \in 1..(st[p].target - 1) :
             /\ SegMatches(p, chans[a]) /\ chans[a].pbx /\ Ringing(chans[a])
             /\ SegMatches(p, chans[b]) /\ ~chans[b].pbx /\ ~Ringing(chans[b])

\* C2: within a merge the signal step directly follows a successful answer,
\* the transplant directly follows a successful signal after a successful
\* answer, and a failed answer is followed by neither.
C2_StepOrder ==
    \A p \in Procs :
        LET t == st[p].trace
        IN  \A i \in 1..Len(t) :
              /\ t[i].op = "ast_answer" => i > 1 /\ t[i - 1].op = "lock"
              /\ t[i].op = "ast_queue_control" =>
                     i > 1 /\ t[i - 1].op = "ast_answer" /\ t[i - 1].r = 0
              /\ t[i].op = "ast_channel_masquerade" =>
                     /\ i > 2
                     /\ t[i - 1].op = "ast_queue_control" /\ t[i - 1].r = 0
                     /\ t[i - 2].op = "ast_answer" /\ t[i - 2].r = 0
              /\ (t[i].op = "ast_answer" /\ t[i].r # 0 /\ i < Len(t)) =>
                     t[i + 1].op = "unlock"
              /\ (t[i].op = "ast_answer" /\ t[i].r # 0 /\ i = Len(t)) =>
                     st[p].pc \notin {"queue", "masq"}

\* an invocation ended after one merge whose answer failed and one merge
\* that ran all three steps
C2_Witness ==
    \E p \in Procs :
        /\ st[p].pc = "done"
        /\ Merged(p)
        /\ \E i \in 1..Len(st[p].trace) :
             st[p].trace[i].op = "ast_answer" /\ st[p].trace[i].r # 0

\* C3: the specs are evaluated in the order of the request's segments, and
\* once a merge has succeeded nothing more is scanned, locked or merged.
C3_InOrderStopOnSuccess ==
    \A p \in Procs :
        LET segs == SegmentsOf(st[p].data)
            t == st[p].trace
        IN  /\ Len(st[p].scans) <= Len(segs)
            /\ \A k \in 1..Len(st[p].scans) :
                 /\ st[p].scans[k].exten = SegIdent(segs[k])
                 /\ (st[p].scans[k].mode = "mark") <=> IsMarkSeg(segs[k])
            /\ \A i \in 1..Len(t) :
                 (t[i].op = "ast_channel_masquerade" /\ t[i].r = 0) =>
                     /\ st[p].pc \in {"unlock", "ret", "done"}
                     /\ i >= Len(t) - 1
                     /\ i < Len(t) => (t[i + 1].op = "unlock" /\ t[i + 1].arg = t[i].arg)
                     /\ \A c \in Channels : lock[c] = p => c = t[i].arg

\* a request of a mark spec followed by an extension spec ended with the
\* pickup on the mark, while a call the extension spec selects was ringing
C3_Witness ==
    \E p \in Procs :
        /\ st[p].pc = "done"
        /\ st[p].data = Amp(At(S_S1, S_PickupMark), S_100)
        /\ Merged(p)
        /\ Len(st[p].scans) = 1
        /\ \E c \in Channels :
             /\ Eligible(chans[c]) /\ chans[c].masq = 0
             /\ SameNoCase(chans[c].exten, S_100)
             /\ SameNoCase(chans[c].dialcontext, chans[p].context)

\* the segments the loop of pickup_exec gets to when no merge succeeds: all
\* of them, but for an empty one that ends the request
EvaluatedSegments(s) ==
    LET segs == SegmentsOf(s)
    IN  IF segs[Len(segs)] = << >> THEN SubSeq(segs, 1, Len(segs) - 1) ELSE segs

Notices(p) == SelectSeq(st[p].log, LAMBDA l : l[1] = "NOTICE")

\* C4: a scan whose merge failed returns what a scan that found nothing
\* returns, and the Driver goes on: an invocation that ends without a
\* successful merge has evaluated every spec of the request and has logged
\* the not-found notice for each.
C4_FailedMergeContinues ==
    \A p \in Procs :
        /\ (st[p].pc = "ret" /\ ~Merged(p)) => st[p].sres = -1
        /\ (st[p].pc = "done" /\ Len(st[p].data) > 0 /\ ~Merged(p)) =>
               /\ Len(st[p].scans) = Len(EvaluatedSegments(st[p].data))
               /\ Len(Notices(p)) = Len(st[p].scans)

\* an invocation ended without a pickup, and a merge that failed was
\* followed by the scan of a later spec
C4_Witness ==
    \E p \in Procs :
        /\ st[p].pc = "done"
        /\ ~Merged(p)
        /\ \E i, j \in 1..Len(st[p].trace) :
             /\ i < j
             /\ st[p].trace[i].op = "ast_channel_masquerade" /\ st[p].trace[i].r # 0
             /\ st[p].trace[j].op = "lock"

\* C5: with a non-empty request pickup_exec returns 0, whatever the scans
\* and the merges did.
C5_FixedStatus ==
    \A p \in Procs :
        (st[p].pc = "done" /\ Len(st[p].data) > 0) => st[p].ret = 0

\* an invocation with a non-empty request returned after a failed merge and
\* no pickup
C5_Witness ==
    \E p \in Procs :
        /\ st[p].pc = "done"
        /\ Len(st[p].data) > 0
        /\ MergeFailed(p)
        /\ ~Merged(p)
        /\ st[p].sres = -1

\* C6: with an empty request pickup_exec calls ast_pickup_call and nothing
\* else, and returns what it returned: no scan, no lock, no merge step, no
\* log line.
C6_EmptyDelegates ==
    \A p \in Procs :
        (st[p].pc = "done" /\ Len(st[p].data) = 0) =>
            /\ Len(st[p].trace) = 1
            /\ st[p].trace[1].op = "ast_pickup_call"
            /\ st[p].trace[1].arg = p
            /\ st[p].ret = st[p].trace[1].r
            /\ st[p].scans = << >>
            /\ st[p].log = << >>
            /\ \A c \in Channels : lock[c] # p
            /\ chans[p].frames = << >>
            /\ \A c \in Channels : chans[c].masq # p

\* an invocation with an empty request returned the failure of the fallback
C6_Witness ==
    \E p \in Procs :
        /\ st[p].pc = "done"
        /\ Len(st[p].data) = 0
        /\ st[p].ret = -1

\* C7: the call an Extension spec selects has the identifier as its
\* extension or macro-extension and the spec's context (the requester's own
\* when none or an empty one was written) as its dial context, ignoring case.
C7_ExtensionMatch ==
    \A p \in Procs :
        (InScan(p) /\ st[p].picked # 0 /\ ~IsMarkSeg(CurSeg(p))) =>
            LET seg == CurSeg(p)
                c == chans[st[p].picked]
            IN  /\ \/ SameNoCase(SegIdent(seg), c.exten)
                   \/ SameNoCase(SegIdent(seg), c.macroexten)
                /\ SameNoCase(SegEffCtx(p, seg), c.dialcontext)

\* a spec written with an empty context selects a call of the requester's
\* context, after the scan passed over an eligible call with the same
\* extension in another dial context
C7_Witness ==
    \E p \in Procs :
        /\ st[p].pc = "answer"
        /\ CurSeg(p) = At(S_100, EmptyStr)
        /\ \E c \in 1..(st[p].target - 1) :
             /\ Eligible(chans[c])
             /\ SameNoCase(chans[c].exten, S_100)
             /\ ~SameNoCase(chans[c].dialcontext, chans[p].context)

\* C8: a spec is scanned by mark exactly when its context is the reserved
\* token in any letter case, and the call such a spec selects has the
\* PICKUPMARK variable set to the identifier, ignoring case.
C8_MarkMatch ==
    \A p \in Procs :
        InScan(p) =>
            /\ (st[p].mode = "mark") <=> IsMarkSeg(CurSeg(p))
            /\ (st[p].picked # 0 /\ IsMarkSeg(CurSeg(p))) =>
                   /\ chans[st[p].picked].mark # NULL
                   /\ SameNoCase(chans[st[p].picked].mark, SegIdent(CurSeg(p)))

\* a mark spec whose token is not in capitals selects a marked call, after
\* the scan passed over an eligible call without a mark whose extension is
\* the identifier and whose dial context is named PICKUPMARK
C8_Witness ==
    \E p \in Procs :
        /\ st[p].pc = "answer"
        /\ IsMarkSeg(CurSeg(p))
        /\ SegCtx(CurSeg(p)) # PICKUPMARK
        /\ \E c \in 1..(st[p].target - 1) :
             /\ Eligible(chans[c])
             /\ chans[c].mark = NULL
             /\ SameNoCase(chans[c].exten, SegIdent(CurSeg(p)))
             /\ SameNoCase(chans[c].dialcontext, PICKUPMARK)

\* C9: when the registry did not change during the scan, the merge is
\* attempted on the first call of the enumeration that matches and is
\* eligible, and the scan finds nothing only if no call matches and is
\* eligible; a scan that returns success has transplanted the call it
\* selected onto the requester.
C9_FirstEligibleMatch ==
    \A p \in Procs :
        /\ (st[p].pc = "answer" /\ ~st[p].dirty) =>
               /\ SegMatches(p, chans[st[p].target])
               /\ Eligible(chans[st[p].target])
               /\ \A c \in 1..(st[p].target - 1) :
                    ~(SegMatches(p, chans[c]) /\ Eligible(chans[c]))
        /\ (st[p].pc = "ret" /\ st[p].picked = 0 /\ ~st[p].dirty) =>
               \A c \in Channels : ~(SegMatches(p, chans[c]) /\ Eligible(chans[c]))
        /\ (st[p].pc = "ret" /\ st[p].sres = 0) =>
               /\ st[p].picked # 0
               /\ chans[st[p].picked].masq = p

\* Scenario A: a requester in context "default" asked for "100", the scan
\* found the ringing call with extension "100" and dial context "default"
\* ahead of a later call that matches too, and the merge transplanted it
C9_Witness ==
    \E p \in Procs :
        /\ st[p].pc = "ret"
        /\ st[p].sres = 0
        /\ ~st[p].dirty
        /\ st[p].data = S_100
        /\ chans[p].context = S_default
        /\ chans[st[p].picked].exten = S_100
        /\ chans[st[p].picked].dialcontext = S_default
        /\ chans[st[p].picked].masq = p
        /\ \E c \in (st[p].picked + 1)..NChan :
             SegMatches(p, chans[c]) /\ Eligible(chans[c])

\* C10: an invocation holds the lock of at most one call, and none while it
\* asks the registry for the next call.
C10_OneLockAtATime ==
    \A p \in Procs :
        /\ Cardinality({c \in Channels : lock[c] = p}) <= 1
        /\ st[p].pc = "walk" => \A c \in Channels : lock[c] # p

\* an invocation examines a call under its lock after it has examined and
\* released the call before it
C10_Witness ==
    \E p \in Procs :
        /\ st[p].pc = "test"
        /\ st[p].target >= 2
        /\ lock[st[p].target] = p
        /\ lock[st[p].target - 1] = 0
        /\ \E i \in 1..Len(st[p].trace) :
             st[p].trace[i].op = "unlock" /\ st[p].trace[i].arg = st[p].target - 1

\* the calls on which invocation p has entered pickup_do
MergeTargets(p) ==
    {st[p].merges[i].target : i \in 1..Len(st[p].merges)}
        \cup (IF InMerge(p) THEN {st[p].picked} ELSE {})

\* the calls invocation p has transplanted
Transplanted(p) ==
    {st[p].merges[i].target : i \in {k \in 1..Len(st[p].merges) : st[p].merges[k].res = 0}}

\* C11: from its selection until pickup_do has returned the selected call
\* stays locked by the invocation that selected it; meanwhile no other
\* invocation has it locked or under test, and nothing but that invocation's
\* own transplant changes it.
C11_LockHeldAcrossMerge ==
    /\ [](\A p \in Procs :
            (InMerge(p) \/ st[p].pc = "unlock") =>
                /\ st[p].picked = st[p].target
                /\ lock[st[p].picked] = p
                /\ \A q \in Procs \ {p} :
                     ~(st[q].pc \in {"test", "answer", "queue", "masq", "unlock"}
                       /\ st[q].target = st[p].picked))
    /\ [][\A p \in Procs :
            (InMerge(p) /\ chans'[st[p].picked] # chans[st[p].picked]) =>
                (st[p].pc = "masq" /\ st'[p].pc = "unlock")]_vars

\* one invocation is about to transplant the call it selected while the
\* other has reached that call in its own scan and waits for its lock
C11_Witness ==
    \E p \in Procs : \E q \in Procs \ {p} :
        /\ st[p].pc = "masq"
        /\ lock[st[p].picked] = p
        /\ st[q].pc = "walk"
        /\ walk_next(st[q].target) = st[p].picked

\* C12 as stated: of two invocations that reach the same call, the second
\* never enters pickup_do on it.
C12_SecondNeverMerges ==
    \A p \in Procs : \A q \in Procs \ {p} :
        MergeTargets(p) \cap MergeTargets(q) = {}

\* C12 as amended: a call is transplanted by at most one invocation, and no
\* invocation enters pickup_do on a call that has been transplanted.
C12_OneTransplant ==
    /\ \A p \in Procs : \A q \in Procs \ {p} :
         Transplanted(p) \cap Transplanted(q) = {}
    /\ \A p \in Procs :
         \A i \in 1..Len(st[p].merges) :
             Cardinality({k \in 1..Len(st[p].merges) :
                             /\ st[p].merges[k].target = st[p].merges[i].target
                             /\ st[p].merges[k].res = 0}) <= 1
    /\ \A p \in Procs : InMerge(p) => chans[st[p].picked].masq = 0

\* both invocations selected the same call: the merge of one failed, the
\* other transplanted it, and the first has since scanned that call again
C12_Witness ==
    \E p \in Procs : \E q \in Procs \ {p} :
        /\ \E i \in 1..Len(st[p].merges) :
             /\ st[p].merges[i].res # 0
             /\ st[p].merges[i].target \in Transplanted(q)
        /\ st[p].pc = "done"
        /\ Len(st[p].scans) = 2

Warnings(p) == SelectSeq(st[p].log, LAMBDA l : l[1] = "WARNING")

\* the merges of invocation p that failed, in order
FailedMerges(p) == SelectSeq(st[p].merges, LAMBDA m : m.failed # "none")

\* how many calls of op by invocation p returned success
Succeeded(p, op) ==
    Cardinality({i \in 1..Len(st[p].trace) :
                    st[p].trace[i].op = op /\ st[p].trace[i].r = 0})

\* C13: nothing is undone when a merge fails after the answer: the requester
\* stays up, every answer signal that was queued stays queued, the target is
\* still the ringing, unattached call it was, and the Driver goes on to the
\* remaining specs.
C13_NoRollback ==
    \A p \in Procs :
        /\ Succeeded(p, "ast_answer") > 0 => chans[p].state = "UP"
        /\ Len(chans[p].frames) = Succeeded(p, "ast_queue_control")
        /\ (st[p].pc = "unlock" /\ st[p].sres # 0) =>
               /\ Eligible(chans[st[p].picked])
               /\ chans[st[p].picked].masq = 0
               /\ chans[st[p].picked].frames = << >>
        /\ (st[p].pc = "done" /\ Len(st[p].data) > 0 /\ ~Merged(p)) =>
               Len(st[p].scans) = Len(EvaluatedSegments(st[p].data))

\* a requester that was not up has answered and queued the signal, the
\* transplant failed, and the Driver is scanning the next spec with the
\* requester up and the signal still queued
C13_Witness ==
    \E p \in Procs :
        /\ st[p].pc = "test"
        /\ Len(st[p].scans) = 2
        /\ chans[p].pbx
        /\ chans[p].state = "UP"
        /\ chans[p].frames = <<"ANSWER">>
        /\ Len(st[p].merges) = 1
        /\ st[p].merges[1].failed = "masq"
        /\ Eligible(chans[st[p].merges[1].target])

\* C14 as stated: merges that failed at different steps handed back
\* different results.
C14_StepSpecificResult ==
    \A p \in Procs :
        \A i, j \in 1..Len(st[p].merges) :
            (/\ st[p].merges[i].failed # "none"
             /\ st[p].merges[j].failed # "none"
             /\ st[p].merges[i].failed # st[p].merges[j].failed) =>
                st[p].merges[i].res # st[p].merges[j].res

\* the number of the warning pickup_do logs for the step that failed
WarningOf(step) ==
    CASE step = "answer" -> <<1>>
      [] step = "queue" -> <<2>>
      [] OTHER -> <<3>>

\* C14 as amended: a merge hands back 0 when all steps succeeded and -1
\* when one failed, whichever it was; the step that failed is named by the
\* warning logged for it, one warning per failed merge, in order.
C14_SameResultStepInLog ==
    \A p \in Procs :
        /\ \A i \in 1..Len(st[p].merges) :
             st[p].merges[i].res = IF st[p].merges[i].failed = "none" THEN 0 ELSE -1
        /\ Len(Warnings(p)) = Len(FailedMerges(p))
        /\ \A k \in 1..Len(Warnings(p)) :
             Warnings(p)[k][2] = WarningOf(FailedMerges(p)[k].failed)

\* one invocation had two merges fail, at different steps
C14_Witness ==
    \E p \in Procs :
        \E i, j \in 1..Len(st[p].merges) :
            /\ st[p].merges[i].failed # "none"
            /\ st[p].merges[j].failed # "none"
            /\ st[p].merges[i].failed # st[p].merges[j].failed

\* C15: between scans, the notices logged are those of the specs evaluated
\* so far, in order and one each, but for the spec whose merge succeeded;
\* an empty request logs none.
C15_NoticePerFailedSpec ==
    \A p \in Procs :
        LET n == Notices(p)
            segs == SegmentsOf(st[p].data)
            k == Len(st[p].scans)
        IN  /\ st[p].pc \in {"loop", "done"} =>
                 Len(n) = IF Merged(p) THEN k - 1 ELSE k
            /\ (InScan(p) \/ st[p].pc = "ret") => Len(n) = k - 1
            /\ \A i \in 1..Len(n) : n[i][2] = SegIdent(segs[i])

\* Scenario B: the request was "999", no call has that extension, the
\* notice for "999" was logged and no merge was attempted
C15_Witness ==
    \E p \in Procs :
        /\ st[p].pc = "done"
        /\ st[p].data = S_999
        /\ \A c \in Channels : chans[c].exten # S_999 /\ chans[c].macroexten # S_999
        /\ st[p].log = << <<"NOTICE", S_999>> >>
        /\ st[p].merges = << >>
        /\ Len(st[p].scans) = 1

\* C16: within one scan no call is locked or tested after a call was
\* selected, so an invocation has entered pickup_do at most once per spec.
C16_OneSelectionPerSpec ==
    \A p \in Procs :
        /\ st[p].pc \in {"walk", "test"} => st[p].picked = 0
        /\ Cardinality(MergeTargets(p)) <= Len(st[p].scans)
        /\ Len(st[p].merges) + (IF InMerge(p) THEN 1 ELSE 0) <= Len(st[p].scans)

\* a scan returned after the merge on the call it selected failed, while a
\* later call of the registry matches the spec and is eligible
C16_Witness ==
    \E p \in Procs :
        /\ st[p].pc = "ret"
        /\ st[p].picked # 0
        /\ st[p].sres # 0
        /\ ~st[p].dirty
        /\ \E c \in (st[p].picked + 1)..NChan :
             SegMatches(p, chans[c]) /\ Eligible(chans[c])

\* the lock and unlock calls of invocation p, in order
LockCalls(p) == SelectSeq(st[p].trace, LAMBDA e : e.op \in {"lock", "unlock"})

\* C17: outside a scan an invocation holds no lock, and its lock and unlock
\* calls pair up: every unlock releases the call locked just before it, and
\* a returned invocation has unlocked every call it locked.
C17_NoLockAtReturn ==
    \A p \in Procs :
        LET lc == LockCalls(p)
        IN  /\ st[p].pc \in {"idle", "loop", "ret", "done"} =>
                 /\ \A c \in Channels : lock[c] # p
                 /\ Len(lc) % 2 = 0
            /\ \A i \in 1..Len(lc) :
                 /\ lc[i].op = (IF i % 2 = 1 THEN "lock" ELSE "unlock")
                 /\ (i % 2 = 0) => lc[i].arg = lc[i - 1].arg

\* an invocation returned after scans that ended in each way: one found
\* nothing, one ended in a failed merge, one in a pickup
C17_Witness ==
    \E p \in Procs :
        /\ st[p].pc = "done"
        /\ Len(st[p].scans) = 3
        /\ Len(st[p].merges) = 2
        /\ MergeFailed(p)
        /\ Merged(p)
        /\ \A c \in Channels : lock[c] = 0

AllDone == \A p \in Procs : st[p].pc = "done"

\* an invocation that has not returned and cannot take a step
Stuck(p) == st[p].pc # "done" /\ ~ENABLED Step(p)

\* C18: with every invocation scheduled fairly, all invocations return; an
\* invocation can be unable to step only while it waits, holding no lock,
\* for a call that another invocation has locked and is able to release.
C18_AllComplete ==
    /\ <>AllDone
    /\ [](\A p \in Procs :
            Stuck(p) =>
                /\ st[p].pc = "walk"
                /\ \A c \in Channels : lock[c] # p
                /\ \E q \in Procs \ {p} :
                     lock[walk_next(st[p].target)] = q /\ ENABLED Step(q))

\* both invocations have returned after each started a merge on a call the
\* other one selected too
C18_Witness ==
    /\ AllDone
    /\ \A p \in Procs : \E q \in Procs \ {p} :
         /\ st[p].merges # << >>
         /\ st[p].merges[1].target \in MergeTargets(q)

C20_EmptySegmentNeverPicks ==
    \A p \in Procs :
        /\ \A k \in 1..Len(st[p].scans) : st[p].scans[k].exten # EmptyStr
        /\ InMerge(p) => SegIdent(CurSeg(p)) # << >>
        /\ st[p].pc = "done" /\ ~Merged(p) /\ Len(st[p].data) > 0 =>
               Len(st[p].scans) =
                   Len(SelectSeq(SegmentsOf(st[p].data), LAMBDA g : g # << >>))

\* a merge is under way for the empty first segment of "&100", on a ringing
\* call whose macro-extension is empty
C20_EmptySegmentPicked ==
    \E p \in Procs :
        /\ InMerge(p)
        /\ st[p].data = Amp(EmptyStr, S_100)
        /\ Len(st[p].scans) = 1
        /\ st[p].exten = EmptyStr
        /\ chans[st[p].picked].macroexten = EmptyStr

====
